---- MODULE Spec2Model ----
(***************************************************************************)
(* CityBuf: cjseq2cb.py, the conversion of a CityJSON sequence into a      *)
(* CityBuffer file.  The module models convert_cjseq2cb (the two passes    *)
(* over the features and the framing of the output file), create_header,   *)
(* create_feature, create_object and create_geometry.                      *)
(*                                                                         *)
(* A JSON object is a record; `"k" in d` is "k" \in DOMAIN d.  An          *)
(* attribute map (a dict whose keys matter) is the sequence of its         *)
(* <<key, kind>> items in insertion order, kind being the Python type of   *)
(* the value.  Python's None inside an index array is NoneVal.             *)
(*                                                                         *)
(* attributes.py (AttributeSchemaEncoder) and geometry.py (GeometryEncoder)*)
(* are modelled from their description in spec.md (4.1, 4.2, 4.3, 4.4).    *)
(* flatbuffers is a library: a vector is modelled by what Prepend does, a  *)
(* finished buffer by a byte string that is a function of the table.       *)
(***************************************************************************)
EXTENDS Integers, Sequences, FiniteSets, TLC

VARIABLES
  cj_metadata,      \* first line of the input
  cj_features,      \* the other lines, in input order
  pc,               \* "run", "done" or "error"
  err,              \* the exception that ended the run, "" if none
  i1,               \* features scanned by pass 1
  i2,               \* features handed to create_feature by pass 2
  schema,           \* schema_encoder.schema: <<name, type>> in insertion order
  global_extent,    \* <<minx, miny, minz, maxx, maxy, maxz>>
  get_extent_from_features,
  fb_features,      \* finished features: [buf |-> bytes, tbl |-> the table in buf]
  opened,           \* cb_path is open for writing
  header,           \* the header table once written, <<>> before
  written,          \* feature frames written
  file,             \* bytes of cb_path
  geom_in,          \* create_geometry on its own: the geometry
  geom_pc,          \*   "idle", "new", "scanned", "built" or "raised"
  geom_out          \*   the result of create_geometry

vars == <<cj_metadata, cj_features, pc, err, i1, i2, schema, global_extent,
          get_extent_from_features, fb_features, opened, header, written, file,
          geom_in, geom_pc, geom_out>>

pipeline_vars == <<cj_metadata, cj_features, pc, err, i1, i2, global_extent,
                   get_extent_from_features, fb_features, opened, header, written, file>>

geom_vars == <<geom_in, geom_pc, geom_out>>

(***************************************************************************)
(* Bounds of the model.                                                    *)
(***************************************************************************)
\* features in the input
MaxFeatures == 2
\* city objects in a feature
MaxObjects == 2
\* children of the outermost level of a boundary array
MaxFan == 2
\* largest vertex index of a MultiPoint
MaxVertex == 2

(***************************************************************************)
(* Program constants.                                                      *)
(***************************************************************************)
\* create_magic_bytes(0, 4)
MagicMajor == 0
MagicMinor == 4
\* An unsigned 32-bit entry is held as its two 16-bit halves <<high, low>>:
\* TLC's integers end at 2^31 - 1.
Half == 65536
Uint32(n) == <<(n \div Half) % Half, n % Half>>
\* np.iinfo(np.uint32).max = 4294967295 = 65535 * 65536 + 65535
UINT32_MAX == <<Half - 1, Half - 1>>
\* np.inf, above every coordinate of the model
PosInf == 1000
\* Python's None as an entry of semantics["values"]
NoneVal == -1

Min(a, b) == IF a <= b THEN a ELSE b
Max(a, b) == IF a >= b THEN a ELSE b

SeqsUpTo(S, lo, hi) == UNION {[1..n -> S] : n \in lo..hi}

(***************************************************************************)
(* flatbuffers.Builder vectors.                                            *)
(***************************************************************************)
Reversed(s) == [i \in 1..Len(s) |-> s[Len(s) + 1 - i]]

RECURSIVE PrependEach(_, _)
\* StartVector; for x in items: Prepend(x); EndVector.  The buffer grows
\* towards its front: what is prepended comes before what is already there.
PrependEach(items, vec) ==
  IF items = <<>> THEN vec
  ELSE PrependEach(Tail(items), <<Head(items)>> \o vec)

Vector(items) == PrependEach(items, <<>>)

\* the length written with byteorder='big'
to_bytes_big(n) == [k \in 1..4 |-> (n \div (256 ^ (4 - k))) % 256]

\* n.to_bytes(4, byteorder='little', signed=False)
to_bytes(n) == [k \in 1..4 |-> (n \div (256 ^ (k - 1))) % 256]

(***************************************************************************)
(* attributes.AttributeSchemaEncoder                                       *)
(***************************************************************************)
SchemaKeys(sch) == {sch[i][1] : i \in 1..Len(sch)}

RECURSIVE add(_, _, _)
\* a key not excluded and not yet known becomes the next column, with the
\* type of the value first seen
add(sch, items, exclude) ==
  IF items = <<>> THEN sch
  ELSE LET it == Head(items)
       IN add(IF it[1] \in exclude \/ it[1] \in SchemaKeys(sch) THEN sch ELSE Append(sch, it),
              Tail(items), exclude)

ColumnIndex(sch, key) == (CHOOSE i \in 1..Len(sch) : sch[i][1] = key) - 1

\* the record's own keys, the excluded ones skipped: a column index and the
\* value under the column's type; a key the schema lacks is an error
encode_values(sch, items, exclude) ==
  LET keep == SelectSeq(items, LAMBDA it : it[1] \notin exclude)
  IN IF \E i \in 1..Len(keep) : keep[i][1] \notin SchemaKeys(sch)
     THEN [ok |-> FALSE, err |-> "SchemaDrift"]
     ELSE [ok |-> TRUE,
           buf |-> [i \in 1..Len(keep) |->
                      <<ColumnIndex(sch, keep[i][1]), sch[ColumnIndex(sch, keep[i][1]) + 1][2]>>]]

get_cb_column_type(sch, key) == sch[ColumnIndex(sch, key) + 1][2]

(***************************************************************************)
(* geometry.GeometryEncoder                                                *)
(***************************************************************************)
GeometryEncoder ==
  [solids |-> <<>>, shells |-> <<>>, surfaces |-> <<>>, strings |-> <<>>,
   indices |-> <<>>, semantic_values |-> <<>>]

\* nesting depth of the boundaries of a geometry type
Depth(type) ==
  CASE type = "MultiPoint" -> 1
    [] type = "MultiLineString" -> 2
    [] type \in {"MultiSurface", "CompositeSurface"} -> 3
    [] type = "Solid" -> 4
    [] type \in {"MultiSolid", "CompositeSolid"} -> 5

RECURSIVE encode_level(_, _, _, _)
RECURSIVE encode_children(_, _, _, _)
\* b is nested d deep.  A ring (d = 1) adds its indices and its length; one
\* level up the number of rings goes to surfaces, then the number of surfaces
\* to shells, then the number of shells to solids.  The outermost array of a
\* type is the container of its units and is not counted.
encode_level(gd, b, d, top) ==
  IF d = 1
  THEN [gd EXCEPT !.indices = @ \o b, !.strings = Append(@, Len(b))]
  ELSE LET g == encode_children(gd, b, d - 1, 1)
       IN IF top THEN g
          ELSE IF d = 2 THEN [g EXCEPT !.surfaces = Append(@, Len(b))]
          ELSE IF d = 3 THEN [g EXCEPT !.shells = Append(@, Len(b))]
          ELSE [g EXCEPT !.solids = Append(@, Len(b))]

encode_children(gd, b, d, i) ==
  IF i > Len(b) THEN gd
  ELSE encode_children(encode_level(gd, b[i], d, FALSE), b, d, i + 1)

encode(gd, boundaries, d) == encode_level(gd, boundaries, d, TRUE)

RECURSIVE FlattenValues(_, _)
FlattenValues(v, d) ==
  IF d <= 1 THEN v
  ELSE IF v = <<>> THEN <<>>
  ELSE FlattenValues(Head(v), d - 1) \o FlattenValues(Tail(v), d)

\* values nests two levels less than the boundaries: one entry per surface
encode_semantics(gd, values, d) ==
  [gd EXCEPT !.semantic_values = FlattenValues(values, Max(d - 2, 1))]

(***************************************************************************)
(* The enumerations of CityBuf_ and get_attribute_by_name.                 *)
(***************************************************************************)
GeometryType ==
  {"MultiPoint", "MultiLineString", "MultiSurface", "CompositeSurface", "Solid",
   "MultiSolid", "CompositeSolid"}

SemanticSurfaceType == {"RoofSurface", "GroundSurface", "WallSurface"}

CityObjectType == {"Building", "BuildingPart", "Bridge"}

\* getattr(class_type, attribute_name, None)
get_attribute_by_name(class_type, attribute_name) ==
  IF attribute_name \in class_type THEN attribute_name ELSE "None"

\* a field of a table that is added only under a condition
Field(cond, name, val) == IF cond THEN name :> val ELSE <<>>

(***************************************************************************)
(* create_geometry                                                         *)
(***************************************************************************)
\* for index in reversed(gd.indices): builder.PrependUint32(index)
IndexVector(arr) == Vector(Reversed(arr))

\* None written as np.iinfo(np.int32).max
SemanticsVectorInt32(arr) ==
  Vector([i \in 1..Len(arr) |->
            IF Reversed(arr)[i] = NoneVal THEN <<32767, 65535>> ELSE Uint32(Reversed(arr)[i])])

\* if sem is None: PrependUint32(np.iinfo(np.uint32).max) else PrependUint32(sem)
SemanticsVector(arr) ==
  Vector([i \in 1..Len(arr) |->
            IF Reversed(arr)[i] = NoneVal THEN UINT32_MAX ELSE Uint32(Reversed(arr)[i])])

\* for offset in reversed(f_semantics_offsets): builder.PrependUOffsetTRelative(offset)
SemanticsObjectsVector(offsets) == Vector(Reversed(offsets))

\* the shells vector filled from gd.surfaces
GeometryArraysSlip(gd) ==
  Field(Len(gd.solids) > 0, "solids", IndexVector(gd.solids))
  @@ Field(Len(gd.shells) > 0, "shells", IndexVector(gd.surfaces))
  @@ Field(Len(gd.surfaces) > 0, "surfaces", IndexVector(gd.surfaces))
  @@ Field(Len(gd.strings) > 0, "strings", IndexVector(gd.strings))
  @@ [boundaries |-> IndexVector(gd.indices)]

\* every level array added, empty or not
GeometryArraysAlways(gd) ==
  [solids |-> IndexVector(gd.solids), shells |-> IndexVector(gd.shells),
   surfaces |-> IndexVector(gd.surfaces), strings |-> IndexVector(gd.strings),
   boundaries |-> IndexVector(gd.indices)]

\* the level arrays and the boundaries as the Geometry table gets them
GeometryArrays(gd) ==
  Field(Len(gd.solids) > 0, "solids", IndexVector(gd.solids))
  @@ Field(Len(gd.shells) > 0, "shells", IndexVector(gd.shells))
  @@ Field(Len(gd.surfaces) > 0, "surfaces", IndexVector(gd.surfaces))
  @@ Field(Len(gd.strings) > 0, "strings", IndexVector(gd.strings))
  @@ [boundaries |-> IndexVector(gd.indices)]

create_geometry(sch, geom) ==
  LET has_semantics == "semantics" \in DOMAIN geom
      semantics == geom.semantics
      both == "surfaces" \in DOMAIN semantics /\ "values" \in DOMAIN semantics
      encs == [i \in 1..Len(semantics.surfaces) |->
                 encode_values(sch, semantics.surfaces[i].items, {"type"})]
      f_semantics_offsets ==
        [i \in 1..Len(semantics.surfaces) |->
           [type |-> get_attribute_by_name(SemanticSurfaceType, semantics.surfaces[i].type),
            attributes |-> encs[i].buf]]
      \* semantic_values is None, or semantics["values"]; a list is true when not empty
      semantic_values == IF has_semantics THEN semantics.values ELSE <<>>
      d == Depth(geom.type)
      gd0 == encode(GeometryEncoder, geom.boundaries, d)
      gd == IF semantic_values # <<>> THEN encode_semantics(gd0, semantic_values, d) ELSE gd0
  IN IF has_semantics /\ ~both
     THEN [ok |-> FALSE, err |-> "Semantics must have surfaces and values"]
     ELSE IF has_semantics /\ \E i \in 1..Len(semantics.surfaces) : ~encs[i].ok
     THEN [ok |-> FALSE, err |-> "SchemaDrift"]
     ELSE IF semantic_values # <<>> /\ Len(gd.semantic_values) = 0
     THEN [ok |-> FALSE, err |-> "UnboundLocalError"]
     ELSE [ok |-> TRUE,
           tbl |-> [type |-> get_attribute_by_name(GeometryType, geom.type), lod |-> geom.lod]
                   @@ GeometryArrays(gd)
                   @@ Field(semantic_values # <<>>, "semantics_objects",
                            SemanticsObjectsVector(f_semantics_offsets))
                   @@ Field(semantic_values # <<>>, "semantics",
                            SemanticsVector(gd.semantic_values))]

(***************************************************************************)
(* Pass 1 over one geometry: convert_cjseq2cb, the loop over the surfaces  *)
(* of geom["semantics"].                                                   *)
(***************************************************************************)
RECURSIVE add_surfaces(_, _)
add_surfaces(sch, surfaces) ==
  IF surfaces = <<>> THEN sch
  ELSE add_surfaces(add(sch, Head(surfaces).items, {"type", "parent", "children"}),
                    Tail(surfaces))

\* [ok, schema]: geom["semantics"]["surfaces"] raises KeyError when there is none
scan_geometry(sch, geom) ==
  IF "semantics" \notin DOMAIN geom THEN [ok |-> TRUE, schema |-> sch]
  ELSE IF "surfaces" \notin DOMAIN geom.semantics THEN [ok |-> FALSE, schema |-> sch]
  ELSE [ok |-> TRUE, schema |-> add_surfaces(sch, geom.semantics.surfaces)]

(***************************************************************************)
(* The geometries given to create_geometry on its own.                     *)
(***************************************************************************)
RingA == <<0, 1, 2>>
RingB == <<2, 0>>
SurfaceA == <<RingA>>
SurfaceB == <<<<2, 0, 1>>, <<1, 2>>>>
ShellA == <<SurfaceA, SurfaceB, SurfaceA>>
ShellB == <<SurfaceB>>
SolidA == <<ShellA, ShellB>>
SolidB == <<ShellB>>

BoundariesOf(d) ==
  CASE d = 1 -> SeqsUpTo(0..MaxVertex, 1, MaxFan)
    [] d = 2 -> SeqsUpTo({RingA, RingB}, 1, MaxFan)
    [] d = 3 -> SeqsUpTo({SurfaceA, SurfaceB}, 1, MaxFan)
    [] d = 4 -> SeqsUpTo({ShellA, ShellB}, 1, MaxFan)
    [] d = 5 -> SeqsUpTo({SolidA, SolidB}, 1, MaxFan)

Roof == [type |-> "RoofSurface", items |-> <<<<"type", "str">>>>]
Wall == [type |-> "WallSurface", items |-> <<<<"type", "str">>, <<"slope", "float">>>>]
RoofOfWall ==
  [type |-> "RoofSurface", items |-> <<<<"type", "str">>, <<"parent", "int">>, <<"slope", "int">>>>]

SurfaceLists == {<<Roof>>, <<Wall, Roof>>, <<Wall, RoofOfWall>>}

\* the entries of semantics["values"] repeat one of these
ValuePatterns == {<<0>>, <<NoneVal>>, <<0, NoneVal, 1>>, <<1, 0>>}

PatternAt(pat, n) == pat[(n % Len(pat)) + 1]

\* values nested as the surfaces of b are: one entry per surface
ValuesFor(b, d, pat) ==
  CASE d = 3 -> [i \in 1..Len(b) |-> PatternAt(pat, i - 1)]
    [] d = 4 -> [s \in 1..Len(b) |-> [i \in 1..Len(b[s]) |-> PatternAt(pat, s + i)]]
    [] d = 5 -> [m \in 1..Len(b) |-> [s \in 1..Len(b[m]) |->
                   [i \in 1..Len(b[m][s]) |-> PatternAt(pat, m + s + i)]]]

\* the semantics blocks a geometry may come with: well formed, one entry short,
\* empty values, or lacking one of the two keys
SemanticsFor(b, d) ==
  {[surfaces |-> sl, values |-> ValuesFor(b, d, pat)] : sl \in SurfaceLists, pat \in ValuePatterns}
  \cup {[surfaces |-> sl, values |-> SubSeq(ValuesFor(b, d, pat), 1, Len(b) - 1)] :
          sl \in SurfaceLists, pat \in ValuePatterns}
  \cup {[surfaces |-> <<Roof>>], [values |-> ValuesFor(b, d, <<0>>)]}

Geometries ==
  UNION {
    {[type |-> t, lod |-> "2.2", boundaries |-> b] : b \in BoundariesOf(Depth(t))}
    \cup (IF Depth(t) < 3 THEN {}
          ELSE UNION {{[type |-> t, lod |-> "2.2", boundaries |-> b, semantics |-> s] :
                         s \in SemanticsFor(b, Depth(t))} : b \in BoundariesOf(Depth(t))})
    : t \in GeometryType}

(***************************************************************************)
(* create_geometry on its own: a geometry is scanned (pass 1), then built. *)
(***************************************************************************)
PipelineIdle ==
  /\ cj_metadata = <<>> /\ cj_features = <<>> /\ pc = "idle" /\ err = ""
  /\ i1 = 0 /\ i2 = 0 /\ global_extent = <<>> /\ get_extent_from_features = FALSE
  /\ fb_features = <<>> /\ opened = FALSE /\ header = <<>> /\ written = 0 /\ file = <<>>

InitGeom ==
  /\ PipelineIdle
  /\ schema = <<>>
  /\ geom_in \in Geometries
  /\ geom_pc = "new"
  /\ geom_out = <<>>

GeomScan ==
  /\ geom_pc = "new"
  /\ LET r == scan_geometry(schema, geom_in)
     IN /\ schema' = r.schema
        /\ geom_pc' = IF r.ok THEN "scanned" ELSE "raised"
        /\ geom_out' = IF r.ok THEN geom_out ELSE [ok |-> FALSE, err |-> "KeyError"]
  /\ UNCHANGED <<geom_in, pipeline_vars>>

GeomCreate ==
  /\ geom_pc = "scanned"
  /\ geom_out' = create_geometry(schema, geom_in)
  /\ geom_pc' = IF geom_out'.ok THEN "built" ELSE "raised"
  /\ UNCHANGED <<geom_in, schema, pipeline_vars>>

NextGeom == GeomScan \/ GeomCreate

SpecGeom == InitGeom /\ [][NextGeom]_vars

(***************************************************************************)
(* create_object                                                           *)
(***************************************************************************)
\* the strings made in the order of parents, then prepended in that order
ParentsVectorForward(parents) == Vector(parents)

\* f_parents holds the strings made over reversed(parents); they are then
\* prepended in the order of f_parents
ParentsVector(parents) == Vector(Reversed(parents))

ChildrenVector(children) == Vector(Reversed(children))

\* for geom in reversed(f_geoms): builder.PrependUOffsetTRelative(geom)
GeometryVector(f_geoms) == Vector(Reversed(f_geoms))

\* a GeometryInstance passed over instead of raised on
GeometryLoopSkipping(sch, geoms) ==
  LET kept == SelectSeq(geoms, LAMBDA g : g.type # "GeometryInstance")
  IN [i \in 1..Len(kept) |-> create_geometry(sch, kept[i])]

\* the loop over cj_object["geometry"]: one result per geometry, the first
\* failure ends the loop
GeometryLoop(sch, geoms) ==
  [i \in 1..Len(geoms) |->
     IF geoms[i].type = "GeometryInstance"
     THEN [ok |-> FALSE, err |-> "GeometryInstance is not supported at the moment"]
     ELSE create_geometry(sch, geoms[i])]

\* the error of the first result that failed
FirstError(results) ==
  results[CHOOSE i \in 1..Len(results) :
            ~results[i].ok /\ \A j \in 1..(i - 1) : results[j].ok].err

AllOk(results) == \A i \in 1..Len(results) : results[i].ok

create_object(sch, cj_id, cj_object) ==
  LET has_children == "children" \in DOMAIN cj_object
      has_parents == "parents" \in DOMAIN cj_object
      has_attributes == "attributes" \in DOMAIN cj_object
      has_geometry == "geometry" \in DOMAIN cj_object
      has_geographical_extent == "geographicalExtent" \in DOMAIN cj_object
      buf_attributes == encode_values(sch, cj_object.attributes, {})
      results == GeometryLoop(sch, cj_object.geometry)
      f_geoms == [i \in 1..Len(results) |-> results[i].tbl]
      gextent == cj_object.geographicalExtent
  IN IF has_attributes /\ ~buf_attributes.ok
     THEN [ok |-> FALSE, err |-> buf_attributes.err]
     ELSE IF has_geometry /\ ~AllOk(results)
     THEN [ok |-> FALSE, err |-> FirstError(results)]
     ELSE [ok |-> TRUE,
           tbl |-> [type |-> get_attribute_by_name(CityObjectType, cj_object.type), id |-> cj_id]
                   @@ Field(has_attributes, "attributes", buf_attributes.buf)
                   @@ Field(has_geometry, "geometry", GeometryVector(f_geoms))
                   @@ Field(has_children, "children", ChildrenVector(cj_object.children))
                   @@ Field(has_parents, "parents", ParentsVector(cj_object.parents))
                   @@ Field(has_geographical_extent, "geographical_extent",
                            SubSeq(gextent, 1, 3) \o SubSeq(gextent, 4, 6))]

(***************************************************************************)
(* create_feature                                                          *)
(***************************************************************************)
\* for v in reversed(vertices): CreateVertex(builder, v[0], v[1], v[2])
VerticesVector(vertices) ==
  Vector([i \in 1..Len(vertices) |->
            <<Reversed(vertices)[i][1], Reversed(vertices)[i][2], Reversed(vertices)[i][3]>>])

\* for offset in reversed(f_object_offsets): builder.PrependUOffsetTRelative(offset)
ObjectsVector(f_object_offsets) == Vector(Reversed(f_object_offsets))

\* builder.Output() of a finished feature: the bytes are the library's; they
\* are a function of the table, and their number grows with the table
FeatureOutput(tbl) ==
  <<tbl.id, Len(tbl.vertices), Len(tbl.objects)>>
  \o [j \in 1..Len(tbl.objects) |-> Cardinality(DOMAIN tbl.objects[j])]

\* CityObjects is the sequence of the <<id, object>> items of the dict
create_feature(sch, cj_feature) ==
  LET items == cj_feature.CityObjects
      results == [j \in 1..Len(items) |-> create_object(sch, items[j][1], items[j][2])]
      f_object_offsets == [j \in 1..Len(items) |-> results[j].tbl]
      tbl == [id |-> cj_feature.id,
              vertices |-> VerticesVector(cj_feature.vertices),
              objects |-> ObjectsVector(f_object_offsets)]
  IN IF ~AllOk(results) THEN [ok |-> FALSE, err |-> FirstError(results)]
     ELSE [ok |-> TRUE, tbl |-> tbl, buf |-> FeatureOutput(tbl)]

(***************************************************************************)
(* create_header                                                           *)
(***************************************************************************)
\* for column_offset in reversed(fb_columns): builder.PrependUOffsetTRelative(column_offset)
ColumnsVector(fb_columns) == Vector(Reversed(fb_columns))

HeaderOutput(tbl) ==
  <<tbl.features_count, Len(tbl.columns)>>
  \o [j \in 1..Len(tbl.columns) |-> Len(tbl.columns[j].name)]

\* referenceSystem is held as its '/'-separated parts
create_header(meta, geographical_extent, features_count, sch) ==
  LET has_crs == "metadata" \in DOMAIN meta /\ "referenceSystem" \in DOMAIN meta.metadata
      parts == meta.metadata.referenceSystem
      n == Len(parts)
      fb_columns == [i \in 1..Len(sch) |->
                       [name |-> sch[i][1], type |-> get_cb_column_type(sch, sch[i][1])]]
      tbl == [features_count |-> features_count,
              transform |-> meta.transform.scale \o meta.transform.translate,
              columns |-> ColumnsVector(fb_columns),
              geographical_extent |-> geographical_extent]
             @@ Field(has_crs, "reference_system",
                      [authority |-> parts[n - 2], version |-> parts[n - 1], code |-> parts[n]])
  IN IF "transform" \notin DOMAIN meta THEN [ok |-> FALSE, err |-> "KeyError: transform"]
     ELSE [ok |-> TRUE, tbl |-> tbl, buf |-> HeaderOutput(tbl)]

\* cb + ma + cb + mi with cb = "FCB" in ASCII
create_magic_bytes(major, minor) == <<70, 67, 66, major % 256, 70, 67, 66, minor % 256>>

(***************************************************************************)
(* convert_cjseq2cb, pass 1                                                *)
(***************************************************************************)
\* np.minimum on the first three, np.maximum on the last three
fold_extent(g, e) ==
  <<Min(g[1], e[1]), Min(g[2], e[2]), Min(g[3], e[3]),
    Max(g[4], e[4]), Max(g[5], e[5]), Max(g[6], e[6])>>

RECURSIVE scan_geometries(_, _)
scan_geometries(acc, geoms) ==
  IF geoms = <<>> \/ ~acc.ok THEN acc
  ELSE scan_geometries(scan_geometry(acc.schema, Head(geoms)), Tail(geoms))

\* the body of the loop over the city objects of a feature
scan_object(acc, from_features, cj_object) ==
  LET ext == IF from_features /\ "geographicalExtent" \in DOMAIN cj_object
             THEN fold_extent(acc.extent, cj_object.geographicalExtent)
             ELSE acc.extent
      sch1 == IF "attributes" \in DOMAIN cj_object
              THEN add(acc.schema, cj_object.attributes, {})
              ELSE acc.schema
      g == IF "geometry" \in DOMAIN cj_object
           THEN scan_geometries([ok |-> TRUE, schema |-> sch1], cj_object.geometry)
           ELSE [ok |-> TRUE, schema |-> sch1]
  IN [ok |-> g.ok, schema |-> g.schema, extent |-> ext]

RECURSIVE scan_objects(_, _, _)
scan_objects(acc, from_features, items) ==
  IF items = <<>> \/ ~acc.ok THEN acc
  ELSE scan_objects(scan_object(acc, from_features, Head(items)[2]), from_features, Tail(items))

(***************************************************************************)
(* The inputs.                                                             *)
(***************************************************************************)
ExtA == <<0, 0, 0, 10, 10, 10>>
ExtB == <<5, 5, 5, 20, 20, 20>>
ExtC == <<-3, 7, 1, 4, 30, 2>>
ExtM == <<1, 1, 1, 9, 9, 9>>

Transform == [scale |-> <<1, 1, 1>>, translate |-> <<0, 0, 0>>]
Crs == <<"https:", "", "www.opengis.net", "def", "crs", "EPSG", "0", "7415">>

\* the first line: without a metadata block, with one that has no extent,
\* with one that has an extent, and without a transform
Metadatas ==
  {[transform |-> Transform],
   [transform |-> Transform, metadata |-> [referenceSystem |-> Crs]],
   [transform |-> Transform, metadata |-> [geographicalExtent |-> ExtM]],
   [metadata |-> [geographicalExtent |-> ExtM, referenceSystem |-> Crs]]}

\* np.ndarray((2, 3)) before anything is stored in it: whatever the memory holds
Uninitialized == {<<0, 0, 0, 0, 0, 0>>, <<PosInf, PosInf, PosInf, -PosInf, -PosInf, -PosInf>>}

GSolid ==
  [type |-> "Solid", lod |-> "2.2", boundaries |-> <<ShellA, ShellB>>,
   semantics |-> [surfaces |-> <<Wall, Roof>>, values |-> <<<<0, NoneVal, 1>>, <<1>>>>]]
GSurface == [type |-> "MultiSurface", lod |-> "1.2", boundaries |-> <<SurfaceB, SurfaceA>>]
GParent ==
  [type |-> "MultiSurface", lod |-> "2.2", boundaries |-> <<SurfaceA>>,
   semantics |-> [surfaces |-> <<RoofOfWall>>, values |-> <<0>>]]
GInstance == [type |-> "GeometryInstance", template |-> 0]
GNoValues ==
  [type |-> "MultiSurface", lod |-> "2.2", boundaries |-> <<SurfaceA>>,
   semantics |-> [surfaces |-> <<Roof>>]]
GNoSurfaces ==
  [type |-> "MultiSurface", lod |-> "2.2", boundaries |-> <<SurfaceA>>,
   semantics |-> [values |-> <<0>>]]

CityObjects ==
  {[type |-> "Building", attributes |-> <<<<"name", "str">>, <<"height", "int">>>>,
    geographicalExtent |-> ExtA, children |-> <<"b", "c">>, geometry |-> <<GSolid, GSurface>>],
   [type |-> "BuildingPart", attributes |-> <<<<"height", "float">>, <<"use", "str">>>>,
    geographicalExtent |-> ExtB, parents |-> <<"a", "d">>],
   [type |-> "Building", geometry |-> <<GParent>>],
   [type |-> "Building", geometry |-> <<GSurface, GInstance>>],
   [type |-> "Bridge", geographicalExtent |-> ExtC, geometry |-> <<GNoValues>>],
   [type |-> "Bridge", geometry |-> <<GNoSurfaces>>]}

Vertices == <<<<0, 0, 0>>, <<10, 0, 0>>, <<0, 10, 5>>>>

\* the features made of objs, feature i taking objs[cut[i-1]+1 .. cut[i]];
\* an object's key in its feature is its place there
FeaturesOf(objs, cut) ==
  [i \in 1..Len(cut) |->
     LET lo == IF i = 1 THEN 0 ELSE cut[i - 1]
     IN [id |-> i, vertices |-> Vertices,
         CityObjects |-> [j \in 1..(cut[i] - lo) |-> <<j, objs[lo + j]>>]]]

Cuts(n, total) ==
  {c \in [1..n -> 0..total] :
     /\ n > 0 => c[n] = total
     /\ \A i \in 1..(n - 1) : c[i] <= c[i + 1]}

\* at most MaxFeatures features holding at most MaxObjects city objects in all
Datasets ==
  UNION {{FeaturesOf(objs, cut) : cut \in Cuts(n, Len(objs))} :
           n \in 0..MaxFeatures,
           objs \in SeqsUpTo(CityObjects, 0, MaxObjects)}

(***************************************************************************)
(* convert_cjseq2cb                                                        *)
(***************************************************************************)
GeomIdle == geom_in = <<>> /\ geom_pc = "idle" /\ geom_out = <<>>

\* the input is read, the schema encoder made, the extent seeded
Init ==
  /\ GeomIdle
  /\ cj_metadata \in Metadatas
  /\ cj_features \in Datasets
  /\ pc = "run" /\ err = ""
  /\ i1 = 0 /\ i2 = 0
  /\ schema = <<>>
  /\ IF "metadata" \in DOMAIN cj_metadata
     THEN IF "geographicalExtent" \in DOMAIN cj_metadata.metadata
          THEN /\ global_extent = SubSeq(cj_metadata.metadata.geographicalExtent, 1, 3)
                                  \o SubSeq(cj_metadata.metadata.geographicalExtent, 4, 6)
               /\ get_extent_from_features = FALSE
          ELSE /\ global_extent = <<PosInf, PosInf, PosInf, -PosInf, -PosInf, -PosInf>>
               /\ get_extent_from_features = TRUE
     ELSE /\ global_extent \in Uninitialized
          /\ get_extent_from_features = TRUE
  /\ fb_features = <<>> /\ opened = FALSE /\ header = <<>> /\ written = 0 /\ file = <<>>

\* for cj_feature in cj_features, pass 1
Pass1Pending == pc = "run" /\ i1 < Len(cj_features)

\* one turn of the loop of pass 1
Pass1Feature ==
  /\ Pass1Pending
  /\ LET r == scan_objects([ok |-> TRUE, schema |-> schema, extent |-> global_extent],
                           get_extent_from_features, cj_features[i1 + 1].CityObjects)
     IN /\ schema' = r.schema
        /\ global_extent' = r.extent
        /\ pc' = IF r.ok THEN "run" ELSE "error"
        /\ err' = IF r.ok THEN err ELSE "KeyError: surfaces"
  /\ i1' = i1 + 1
  /\ UNCHANGED <<cj_metadata, cj_features, i2, get_extent_from_features, fb_features,
                 opened, header, written, file, geom_vars>>

\* one loop doing both passes: a feature is built once it is scanned
Pass2ReadyFused == i2 < i1

\* pass 2 starts when the loop of pass 1 has ended
Pass2Ready == i1 = Len(cj_features)

\* for cj_feature in cj_features, pass 2
Pass2Pending == pc = "run" /\ Pass2Ready /\ i2 < Len(cj_features)

\* one turn of the loop of pass 2
Pass2Feature ==
  /\ Pass2Pending
  /\ LET r == create_feature(schema, cj_features[i2 + 1])
     IN /\ fb_features' = IF r.ok THEN Append(fb_features, [buf |-> r.buf, tbl |-> r.tbl])
                          ELSE fb_features
        /\ pc' = IF r.ok THEN "run" ELSE "error"
        /\ err' = IF r.ok THEN err ELSE r.err
  /\ i2' = i2 + 1
  /\ UNCHANGED <<cj_metadata, cj_features, i1, schema, global_extent,
                 get_extent_from_features, opened, header, written, file, geom_vars>>

\* cb_path opened before pass 2, the frames written as the features are built
OutputReadyEarly == i1 = Len(cj_features)

\* cb_path is opened when every feature has been built
OutputReady == i1 = Len(cj_features) /\ i2 = Len(cj_features)

OpenPending == pc = "run" /\ OutputReady /\ ~opened /\ written = 0

\* open(cb_path, 'wb'); file.write(create_magic_bytes(0, 4))
OpenFile ==
  /\ OpenPending
  /\ opened' = TRUE
  /\ file' = create_magic_bytes(MagicMajor, MagicMinor)
  /\ UNCHANGED <<cj_metadata, cj_features, pc, err, i1, i2, schema, global_extent,
                 get_extent_from_features, fb_features, header, written, geom_vars>>

Frame(buf) == to_bytes(Len(buf)) \o buf

HeaderPending == pc = "run" /\ opened /\ written = 0

WriteHeader ==
  /\ HeaderPending
  /\ LET r == create_header(cj_metadata, global_extent, Len(fb_features), schema)
     IN /\ header' = IF r.ok THEN r.tbl ELSE header
        /\ file' = IF r.ok THEN file \o Frame(r.buf) ELSE file
        /\ written' = IF r.ok THEN 1 ELSE 0
        /\ pc' = IF r.ok THEN "run" ELSE "error"
        /\ err' = IF r.ok THEN err ELSE r.err
  /\ UNCHANGED <<cj_metadata, cj_features, i1, i2, schema, global_extent,
                 get_extent_from_features, fb_features, opened, geom_vars>>

\* for fb_feature in fb_features
FeaturePending == pc = "run" /\ opened /\ written >= 1 /\ written <= Len(fb_features)

WriteFeature ==
  /\ FeaturePending
  /\ file' = file \o Frame(fb_features[written].buf)
  /\ written' = written + 1
  /\ UNCHANGED <<cj_metadata, cj_features, pc, err, i1, i2, schema, global_extent,
                 get_extent_from_features, fb_features, opened, header, geom_vars>>

\* the with block ends: the file is closed
ClosePending ==
  pc = "run" /\ opened /\ written = Len(fb_features) + 1 /\ i2 = Len(cj_features)

Close ==
  /\ ClosePending
  /\ pc' = "done"
  /\ opened' = FALSE
  /\ UNCHANGED <<cj_metadata, cj_features, err, i1, i2, schema, global_extent,
                 get_extent_from_features, fb_features, header, written, file, geom_vars>>

Next == Pass1Feature \/ Pass2Feature \/ OpenFile \/ WriteHeader \/ WriteFeature \/ Close

Spec == Init /\ [][Next]_vars

(***************************************************************************)
(* Reading the output file back.                                           *)
(***************************************************************************)
RECURSIVE ParseFrames(_)
\* the frames of b: a 4-byte little-endian length, then that many bytes
ParseFrames(b) ==
  IF b = <<>> THEN [ok |-> TRUE, frames |-> <<>>]
  ELSE IF Len(b) < 4 THEN [ok |-> FALSE, frames |-> <<>>]
  ELSE LET n == b[1] + 256 * b[2] + 65536 * b[3] + 16777216 * b[4]
       IN IF Len(b) < 4 + n THEN [ok |-> FALSE, frames |-> <<>>]
          ELSE LET rest == ParseFrames(SubSeq(b, 5 + n, Len(b)))
               IN [ok |-> rest.ok, frames |-> <<SubSeq(b, 5, 4 + n)>> \o rest.frames]

\* an untouched destination has no frame; otherwise the magic prefix comes first
ParseFile(b) ==
  IF b = <<>> THEN [ok |-> TRUE, frames |-> <<>>]
  ELSE IF Len(b) < 8 \/ SubSeq(b, 1, 3) # <<70, 67, 66>> \/ SubSeq(b, 5, 7) # <<70, 67, 66>>
  THEN [ok |-> FALSE, frames |-> <<>>]
  ELSE ParseFrames(SubSeq(b, 9, Len(b)))

(***************************************************************************)
(* The claims.                                                             *)
(***************************************************************************)

\* C1: when the conversion of N feature lines succeeds, the file is the 8-byte
\* magic prefix (FCB, major version, FCB, minor version), then the header
\* frame, then exactly N feature frames in the order of the input lines and
\* nothing else; every frame is a 4-byte little-endian length followed by that
\* many bytes.
Thm_C1 ==
  pc = "done" =>
    /\ Len(file) >= 8
    /\ SubSeq(file, 1, 8) = <<70, 67, 66, 0, 70, 67, 66, 4>>
    /\ LET p == ParseFrames(SubSeq(file, 9, Len(file)))
       IN /\ p.ok
          /\ Len(p.frames) = 1 + Len(cj_features)
          /\ p.frames[1] = HeaderOutput(header)
          /\ \A k \in 1..Len(cj_features) :
               /\ p.frames[k + 1] = create_feature(schema, cj_features[k]).buf
               /\ p.frames[k + 1][1] = cj_features[k].id

\* two features with city objects were converted
Wit_C1 ==
  /\ pc = "done"
  /\ Len(cj_features) = 2
  /\ \A k \in 1..2 : Len(cj_features[k].CityObjects) = 1

\* C2: every turn of pass 1 (the schema_encoder.add calls) comes before the
\* first create_feature call (the encode_values calls), and from that call on
\* the schema does not change.
Thm_C2 ==
  [][/\ i1' # i1 => i2' = 0
     /\ i2' > 0 => schema' = schema]_vars

\* the header was written after two features were encoded against a schema
\* of several columns
Wit_C2 == written >= 1 /\ i2 = 2 /\ Len(schema) >= 3 /\ Len(header.columns) = Len(schema)

\* the keys create_geometry and create_object hand to encode_values, the
\* excluded "type" of a surface left out
EncodeKeysOfGeometry(g) ==
  IF "semantics" \in DOMAIN g /\ "surfaces" \in DOMAIN g.semantics
  THEN UNION {{g.semantics.surfaces[i].items[n][1] :
                 n \in 1..Len(g.semantics.surfaces[i].items)} \ {"type"} :
                i \in 1..Len(g.semantics.surfaces)}
  ELSE {}

EncodeKeysOfObject(o) ==
  (IF "attributes" \in DOMAIN o
   THEN {o.attributes[n][1] : n \in 1..Len(o.attributes)} ELSE {})
  \cup (IF "geometry" \in DOMAIN o
        THEN UNION {EncodeKeysOfGeometry(o.geometry[g]) : g \in 1..Len(o.geometry)} ELSE {})

EncodeKeys(features) ==
  UNION {UNION {EncodeKeysOfObject(features[k].CityObjects[j][2]) :
                  j \in 1..Len(features[k].CityObjects)} :
           k \in 1..Len(features)}

\* C3 as claimed: once pass 1 is over, every key that encode_values will meet
\* (not excluded at encode time) is a column of the schema, and no run ends
\* on a key the schema lacks.
CE_C3 ==
  /\ (pc = "run" /\ i1 = Len(cj_features)) => EncodeKeys(cj_features) \subseteq SchemaKeys(schema)
  /\ err # "SchemaDrift"

MalformedGeometry(g) ==
  \/ g.type = "GeometryInstance"
  \/ /\ "semantics" \in DOMAIN g
     /\ ~("surfaces" \in DOMAIN g.semantics /\ "values" \in DOMAIN g.semantics)

Malformed(features) ==
  \E k \in 1..Len(features) : \E j \in 1..Len(features[k].CityObjects) :
    LET o == features[k].CityObjects[j][2]
    IN "geometry" \in DOMAIN o /\ \E g \in 1..Len(o.geometry) : MalformedGeometry(o.geometry[g])

\* the run has a next step
Running ==
  Pass1Pending \/ Pass2Pending \/ OpenPending \/ HeaderPending \/ FeaturePending \/ ClosePending

\* C4: with a GeometryInstance, or a semantics block lacking surfaces or
\* values, anywhere in the dataset, the conversion never completes and never
\* writes: until it has ended with an error it has a next step, and the
\* destination is untouched.
Thm_C4 ==
  Malformed(cj_features) =>
    /\ pc # "done"
    /\ pc = "error" \/ Running
    /\ ~opened /\ file = <<>>

\* a GeometryInstance that is the second geometry of an object of the second
\* feature ended the run
Wit_C4 ==
  /\ pc = "error"
  /\ err = "GeometryInstance is not supported at the moment"
  /\ i2 = 2
  /\ Len(fb_features) = 1

\* C5: when the conversion aborts, the destination holds no incomplete frame
\* and no feature frame: it is untouched, or holds the magic prefix followed
\* by whole frames, the header's at most.
Thm_C5 ==
  pc = "error" =>
    /\ ParseFile(file).ok
    /\ Len(ParseFile(file).frames) <= 1
    /\ (err # "KeyError: transform" => file = <<>>)

\* the second feature failed after the first was built
Wit_C5 == pc = "error" /\ i2 = 2 /\ Len(fb_features) = 1 /\ file = <<>>

RECURSIVE FoldExtents(_, _)
FoldExtents(g, objs) ==
  IF objs = <<>> THEN g
  ELSE FoldExtents(IF "geographicalExtent" \in DOMAIN Head(objs)
                   THEN fold_extent(g, Head(objs).geographicalExtent) ELSE g,
                   Tail(objs))

RECURSIVE AllObjects(_)
AllObjects(features) ==
  IF features = <<>> THEN <<>>
  ELSE [j \in 1..Len(Head(features).CityObjects) |-> Head(features).CityObjects[j][2]]
       \o AllObjects(Tail(features))

\* C6 as claimed: the extent of the header is metadata.geographicalExtent when
\* declared; otherwise, with or without a metadata block, the fold of the
\* extents of the city objects from min = +infinity and max = -infinity.
CE_C6 ==
  written >= 1 =>
    header.geographical_extent =
      IF "metadata" \in DOMAIN cj_metadata /\ "geographicalExtent" \in DOMAIN cj_metadata.metadata
      THEN cj_metadata.metadata.geographicalExtent
      ELSE FoldExtents(<<PosInf, PosInf, PosInf, -PosInf, -PosInf, -PosInf>>,
                       AllObjects(cj_features))

RECURSIVE Sum(_)
Sum(s) == IF s = <<>> THEN 0 ELSE Head(s) + Sum(Tail(s))

Built == geom_pc = "built"

Has(t, name) == name \in DOMAIN t

\* C7: in every geometry written, each level array that is present sums to
\* the number of entries one level down (solids to shells, shells to
\* surfaces, surfaces to rings, rings to the boundaries); a Solid with shells
\* of 3 and 1 surfaces has the shell array <<3, 1>> and 4 surface entries.
Thm_C7 ==
  Built =>
    LET t == geom_out.tbl
        len(name) == IF Has(t, name) THEN Len(t[name]) ELSE 0
    IN /\ Has(t, "solids") => Sum(t.solids) = len("shells")
       /\ Has(t, "shells") => Sum(t.shells) = len("surfaces")
       /\ Has(t, "surfaces") => Sum(t.surfaces) = len("strings")
       /\ Has(t, "strings") => Sum(t.strings) = len("boundaries")
       /\ (geom_in.type = "Solid" /\ geom_in.boundaries = <<ShellA, ShellB>>)
            => t.shells = <<3, 1>> /\ Len(t.surfaces) = 4

\* the Solid with shells of 3 and 1 surfaces was written
Wit_C7 ==
  /\ Built
  /\ geom_in.type = "Solid"
  /\ geom_in.boundaries = <<ShellA, ShellB>>
  /\ geom_out.tbl.shells = <<3, 1>>

\* C8: each of the solid, shell, surface and ring arrays is a field of the
\* Geometry table exactly when the flattened array is not empty, and is then
\* not empty; the boundaries are always a field; a Solid has shell and
\* surface arrays and no solid array.
Thm_C8 ==
  Built =>
    LET t == geom_out.tbl
        gd == encode(GeometryEncoder, geom_in.boundaries, Depth(geom_in.type))
    IN /\ \A name \in {"solids", "shells", "surfaces", "strings"} :
            /\ Has(t, name) <=> Len(gd[name]) > 0
            /\ Has(t, name) => Len(t[name]) > 0
       /\ Has(t, "boundaries")
       /\ geom_in.type = "Solid" =>
            Has(t, "shells") /\ Has(t, "surfaces") /\ ~Has(t, "solids")

\* a MultiSurface was written: surfaces and rings, no shells, no solids
Wit_C8 ==
  /\ Built
  /\ geom_in.type = "MultiSurface"
  /\ Has(geom_out.tbl, "surfaces") /\ ~Has(geom_out.tbl, "shells")

\* 4294967295 as two 16-bit halves: 65535 * 65536 + 65535
Sentinel == <<65535, 65535>>

NumSurfaces(t) == IF Has(t, "surfaces") THEN Len(t.surfaces) ELSE 0

\* what C9 says of a written geometry t made from g
SemanticsAsClaimed(t, g) ==
  LET input == FlattenValues(g.semantics.values, Max(Depth(g.type) - 2, 1))
  IN /\ Has(t, "semantics") /\ Has(t, "semantics_objects")
     /\ Len(t.semantics) = NumSurfaces(t)
     /\ \A i \in 1..Len(t.semantics) :
          /\ (i <= Len(input) /\ input[i] = NoneVal) => t.semantics[i] = Sentinel
          /\ t.semantics[i] # Sentinel =>
               /\ t.semantics[i][1] = 0
               /\ t.semantics[i][2] < Len(g.semantics.surfaces)
     /\ Len(t.semantics_objects) = Len(g.semantics.surfaces)
     /\ \A i \in 1..Len(t.semantics_objects) :
          t.semantics_objects[i].type = g.semantics.surfaces[i].type

WellFormedValues(g) ==
  LET input == FlattenValues(g.semantics.values, Max(Depth(g.type) - 2, 1))
      gd == encode(GeometryEncoder, g.boundaries, Depth(g.type))
  IN /\ Len(input) = Len(gd.surfaces)
     /\ Len(input) > 0
     /\ \A i \in 1..Len(input) :
          input[i] = NoneVal \/ (0 <= input[i] /\ input[i] < Len(g.semantics.surfaces))

GeometryInOrder(tg, g) ==
  LET gd == encode(GeometryEncoder, g.boundaries, Depth(g.type))
  IN /\ tg.lod = g.lod
     /\ tg.boundaries = gd.indices
     /\ \A name \in {"solids", "shells", "surfaces", "strings"} :
          Has(tg, name) => tg[name] = gd[name]
     /\ Has(tg, "semantics_objects") =>
          /\ Len(tg.semantics_objects) = Len(g.semantics.surfaces)
          /\ \A i \in 1..Len(g.semantics.surfaces) :
               tg.semantics_objects[i].type = g.semantics.surfaces[i].type
     /\ Has(tg, "semantics") =>
          LET input == FlattenValues(g.semantics.values, Max(Depth(g.type) - 2, 1))
          IN /\ Len(tg.semantics) = Len(input)
             /\ \A i \in 1..Len(input) :
                  tg.semantics[i] = IF input[i] = NoneVal THEN Sentinel ELSE <<0, input[i]>>

ObjectInOrder(to, id, o) ==
  /\ to.id = id
  /\ Has(o, "parents") => to.parents = o.parents
  /\ Has(o, "children") => to.children = o.children
  /\ Has(o, "geometry") =>
       /\ Len(to.geometry) = Len(o.geometry)
       /\ \A g \in 1..Len(o.geometry) : GeometryInOrder(to.geometry[g], o.geometry[g])

FeatureInOrder(t, f) ==
  /\ t.vertices = f.vertices
  /\ Len(t.objects) = Len(f.CityObjects)
  /\ \A j \in 1..Len(f.CityObjects) :
       ObjectInOrder(t.objects[j], f.CityObjects[j][1], f.CityObjects[j][2])

\* C10: every vector written is in the order of its source: the columns of
\* the header in schema order, and of every feature built the vertices, the
\* objects, their parents, children and geometries, the semantic objects and
\* the index and run-length arrays.
Thm_C10 ==
  /\ \A k \in 1..Len(fb_features) : FeatureInOrder(fb_features[k].tbl, cj_features[k])
  /\ written >= 1 =>
       /\ Len(header.columns) = Len(schema)
       /\ \A i \in 1..Len(schema) :
            header.columns[i].name = schema[i][1] /\ header.columns[i].type = schema[i][2]

\* a header of several columns was written for features with parents,
\* children and two geometries
Wit_C10 ==
  /\ written >= 1 /\ Len(header.columns) >= 3
  /\ \E k \in 1..Len(fb_features) : \E j \in 1..Len(fb_features[k].tbl.objects) :
       Has(fb_features[k].tbl.objects[j], "parents")
  /\ \E k \in 1..Len(fb_features) : \E j \in 1..Len(fb_features[k].tbl.objects) :
       /\ Has(fb_features[k].tbl.objects[j], "children")
       /\ Len(fb_features[k].tbl.objects[j].geometry) = 2

====
